---- MODULE Spec2Model ----
(***************************************************************************)
(* Model of src/main.py: the FastAPI intake receive_assignment, the Celery *)
(* task process_assignment and its helpers poll_openai_run,                *)
(* send_slack_alert, send_failsafe_payload, send_ghl_feedback and          *)
(* remove_bracketed_text.  One submission is followed from intake to the   *)
(* end of its task; the external services (completion service, alert       *)
(* channel, failsafe endpoint, destination webhook) answer                 *)
(* nondeterministically.                                                   *)
(***************************************************************************)
EXTENDS Integers, Sequences, FiniteSets, TLC

VARIABLES
    pc,              \* position of the task: idle, queued, route, ..., done
    submission,      \* AssignmentRequest handed to process_assignment.delay
    runs,            \* number of times the worker started process_assignment
    user_input,      \* prompt built by the day chain
    ghl_webhook_url, \* destination selected by the day chain
    submit_calls,    \* calls of threads.create / runs.create
    run,             \* the run object: [status, last_error]
    attempts,        \* poll_openai_run: attempts
    wait_time,       \* poll_openai_run: wait_time (eighths of a second)
    waits,           \* history: the intervals passed to time.sleep
    polled,          \* history: the statuses runs.retrieve returned
    timed_out,       \* history: poll_openai_run synthesized the timeout
    error_code,      \* process_assignment: error_code
    error_message,   \* process_assignment: error_message
    slack_posts,     \* history: POSTs to SLACK_WEBHOOK_URL
    failsafe_posts,  \* history: POSTs to GHL_WEBHOOK_FAILSAFE
    fetched,         \* outcome of messages.list and its validity checks
    assistant_output,   \* process_assignment: assistant_output
    feedback,           \* process_assignment: feedback (brackets removed)
    formatted_feedback, \* process_assignment: formatted_feedback
    ghl_posts,       \* history: POSTs to the day's GHL webhook
    task_state,      \* state recorded through self.update_state
    result           \* how the task ended: [kind, exc, origin]

vars == <<pc, submission, runs, user_input, ghl_webhook_url, submit_calls, run,
          attempts, wait_time, waits, polled, timed_out, error_code,
          error_message, slack_posts, failsafe_posts, fetched,
          assistant_output, feedback, formatted_feedback, ghl_posts, task_state,
          result>>

----------------------------------------------------------------------------
(* Bounds of the inputs *)

\* day is drawn from 0..MaxDay: 0 and every day above 5 are out of range
MaxDay == 6
\* length of the assistant's message text the service may return
MaxTextLen == 2
\* length of the texts the result transformer is applied to on its own
MaxInputLen == 4

----------------------------------------------------------------------------
(* Constants of the program *)

\* poll_openai_run(client, thread, run, max_attempts=5)
max_attempts == 5

\* wait_time is kept in eighths of a second, which makes every value of
\* 30 * 1.5^k below the cap an integer (30, 45, 67.5, 101.25)
Seconds(n) == n * 8
InitialWait == Seconds(30)
WaitCap == Seconds(120)

Min(a, b) == IF a <= b THEN a ELSE b

None == "None"
NA == "N/A"

Days == 0..MaxDay
Contacts == {[contact_id |-> "id1", contact_email |-> "a@x"],
             [contact_id |-> "id2", contact_email |-> "b@x"]}
Fields == {"x", "y"}

\* statuses of a run; the loop of poll_openai_run ends on the terminal ones
TerminalStatuses == {"completed", "failed", "cancelled"}
RunStatuses == {"queued", "in_progress"} \cup TerminalStatuses
\* last_error of a run the service reports: absent, or an object with a code
ServiceCodes == {"server_error", "rate_limit_exceeded", "invalid_prompt"}
NoError == [shape |-> "none", code |-> None, message |-> None]
ServiceErrors == {[shape |-> "object", code |-> c, message |-> "service message"] :
                    c \in ServiceCodes}
\* the runs the completion service may answer with
ServiceRuns == {[status |-> s, last_error |-> NoError] : s \in RunStatuses}
               \cup {[status |-> "failed", last_error |-> e] : e \in ServiceErrors}
NoRun == [status |-> None, last_error |-> NoError]
NoSubmission == [contact_id |-> None, contact_email |-> None, day |-> 0,
                 field1 |-> None, field2 |-> None]

\* outcome of a requests.post: status 200, another status, or an exception
PostOutcomes == {"200", "non200", "exception"}

\* characters of a message text: the two brackets, newline, another character,
\* and BR for the inline marker <br> that replace("\n", "<br>") writes
LB == "LB"
RB == "RB"
NL == "NL"
BR == "BR"
Alphabet == {LB, RB, NL, "a"}
RECURSIVE SeqsUpTo(_, _)
SeqsUpTo(S, n) ==
    IF n = 0 THEN {<<>>}
    ELSE LET shorter == SeqsUpTo(S, n - 1)
         IN shorter \cup {Append(s, c) : s \in {t \in shorter : Len(t) = n - 1}, c \in S}
Texts == SeqsUpTo(Alphabet, MaxTextLen)

NoResult == [kind |-> "none", exc |-> None, origin |-> None]
Raised(exc, origin) == [kind |-> "raised", exc |-> exc, origin |-> origin]
Returned == [kind |-> "returned", exc |-> None, origin |-> None]

----------------------------------------------------------------------------
(* remove_bracketed_text and the newline replacement *)

\* index of the first RB after position i with no NL in between, or 0
RECURSIVE CloseAfter(_, _)
CloseAfter(t, i) ==
    IF i + 1 > Len(t) THEN 0
    ELSE IF t[i + 1] = RB THEN i + 1
    ELSE IF t[i + 1] = NL THEN 0
    ELSE CloseAfter(t, i + 1)

\* re.sub with count=1: only the first match is removed
RECURSIVE StripFirstOnly(_, _)
StripFirstOnly(t, i) ==
    IF i > Len(t) THEN <<>>
    ELSE IF t[i] = LB /\ CloseAfter(t, i) # 0
         THEN SubSeq(t, CloseAfter(t, i) + 1, Len(t))
    ELSE <<t[i]>> \o StripFirstOnly(t, i + 1)

\* re.sub(r'【.*?】', '', text): leftmost non-overlapping shortest matches
RECURSIVE StripFrom(_, _)
StripFrom(t, i) ==
    IF i > Len(t) THEN <<>>
    ELSE IF t[i] = LB /\ CloseAfter(t, i) # 0 THEN StripFrom(t, CloseAfter(t, i) + 1)
    ELSE <<t[i]>> \o StripFrom(t, i + 1)

remove_bracketed_text(t) == StripFrom(t, 1)

\* replace("\n", "<br>\n"): the marker is added and the newline kept
RECURSIVE BreakBeforeNewline(_)
BreakBeforeNewline(t) ==
    IF t = <<>> THEN <<>>
    ELSE (IF Head(t) = NL THEN <<BR, NL>> ELSE <<Head(t)>>)
         \o BreakBeforeNewline(Tail(t))

\* feedback.replace("\n", "<br>")
ReplaceNewlines(t) == [i \in 1..Len(t) |-> IF t[i] = NL THEN BR ELSE t[i]]

FormatFeedback(t) == ReplaceNewlines(remove_bracketed_text(t))

----------------------------------------------------------------------------
(* The day chain of process_assignment *)

DayUrl(d) == <<"GHL_WEBHOOK_URL_DAY", d>>
DayPrompt(d, f1, f2) == <<"Dag", d, f1, f2>>

\* the chain with its last elif taken for every other day
RouteDayFallthrough(d, f1, f2) ==
    IF d \in 1..4
    THEN [ok |-> TRUE, user_input |-> DayPrompt(d, f1, f2), url |-> DayUrl(d)]
    ELSE [ok |-> TRUE, user_input |-> DayPrompt(5, f1, f2), url |-> DayUrl(5)]

\* the chain with the branch of day 4 copied from day 3 and its webhook kept
RouteDayCopiedBranch(d, f1, f2) ==
    IF d \in 1..5
    THEN [ok |-> TRUE, user_input |-> DayPrompt(d, f1, f2),
          url |-> DayUrl(IF d = 4 THEN 3 ELSE d)]
    ELSE [ok |-> FALSE, user_input |-> <<>>, url |-> <<>>]

\* the if/elif chain: the prompt and webhook of days 1..5, ValueError otherwise
RouteDay(d, f1, f2) ==
    IF d \in 1..5
    THEN [ok |-> TRUE, user_input |-> DayPrompt(d, f1, f2), url |-> DayUrl(d)]
    ELSE [ok |-> FALSE, user_input |-> <<>>, url |-> <<>>]

----------------------------------------------------------------------------
(* poll_openai_run *)

\* the back-off without its cap
NextWaitUncapped(w) == (w * 3) \div 2

\* wait_time = min(wait_time * 1.5, 120)
NextWait(w) == Min((w * 3) \div 2, WaitCap)

\* the budget test off by one
BudgetExhaustedLate(a) == a > max_attempts

\* if attempts >= max_attempts
BudgetExhausted(a) == a >= max_attempts

\* the synthetic timeout without the assignment run.status = "failed"
TimeoutRunStatusKept ==
    [status |-> "in_progress",
     last_error |-> [shape |-> "dict", code |-> "timeout",
                     message |-> "OpenAI response took too long."]]

\* the run poll_openai_run synthesizes when the budget is exhausted
TimeoutRun ==
    [status |-> "failed",
     last_error |-> [shape |-> "dict", code |-> "timeout",
                     message |-> "OpenAI response took too long."]]

----------------------------------------------------------------------------
(* The failed branch of process_assignment and the escalation helpers *)

\* the code read with .get only, which an object does not have
ErrorCodeDictOnly(le) == IF le.shape = "dict" THEN le.code ELSE NA

\* error_code: run.last_error.get("code", "N/A") of a dict,
\* getattr(run.last_error, "code", "N/A") of anything else
ErrorCode(le) ==
    IF le.shape = "dict" THEN le.code
    ELSE IF le.shape = "object" THEN le.code
    ELSE NA

ErrorMessage(le) ==
    IF le.shape = "dict" THEN le.message
    ELSE IF le.shape = "object" THEN le.message
    ELSE NA

\* if run.status == "failed"
IsFailedRun(r) == r.status = "failed"

\* send_slack_alert with an except clause that re-raises
SlackAlertReraises(o) ==
    IF o = "exception" THEN "raise" ELSE IF o = "200" THEN "True" ELSE "False"

\* send_slack_alert: True on status 200, False on another status and on an
\* exception, which the except clause logs
SlackAlertResult(o) == IF o = "200" THEN "True" ELSE "False"

\* send_failsafe_payload: logs the response; the except clause logs and re-raises
FailsafeResult(o) == IF o = "exception" THEN "raise" ELSE "None"

\* send_ghl_feedback with an except clause that only logs
GhlFeedbackSwallows(o) == "None"

\* send_ghl_feedback: logs the response; the except clause logs and re-raises
GhlFeedbackResult(o) == IF o = "exception" THEN "raise" ELSE "None"

\* the test with "timeout" left out of the tuple
IsQuietCodeServerOnly(c) == c \in {"server_error"}

\* if error_code in ("server_error", "timeout")
IsQuietCode(c) == c \in {"server_error", "timeout"}

EscalationPayload(o) ==
    [contact_email |-> submission.contact_email, day |-> submission.day,
     field1 |-> submission.field1, field2 |-> submission.field2,
     error_code |-> error_code, error_message |-> error_message, outcome |-> o]

\* outcomes of messages.list and of the two validity checks
FetchFailures == {"list_error", "no_data", "no_content", "no_text"}

----------------------------------------------------------------------------
inputVars == <<submission, runs>>
routeVars == <<user_input, ghl_webhook_url>>
pollVars == <<run, attempts, wait_time, waits, polled, timed_out>>
escalationVars == <<error_code, error_message, slack_posts, failsafe_posts, task_state>>
deliveryVars == <<fetched, assistant_output, feedback, formatted_feedback, ghl_posts>>

Init ==
    /\ pc = "idle"
    /\ submission = NoSubmission
    /\ runs = 0
    /\ user_input = <<>>
    /\ ghl_webhook_url = <<>>
    /\ submit_calls = 0
    /\ run = NoRun
    /\ attempts = 0
    /\ wait_time = InitialWait
    /\ waits = <<>>
    /\ polled = <<>>
    /\ timed_out = FALSE
    /\ error_code = None
    /\ error_message = None
    /\ slack_posts = <<>>
    /\ failsafe_posts = <<>>
    /\ fetched = None
    /\ assistant_output = <<>>
    /\ feedback = <<>>
    /\ formatted_feedback = <<>>
    /\ ghl_posts = <<>>
    /\ task_state = "PENDING"
    /\ result = NoResult

\* receive_assignment: process_assignment.delay(...) puts the task on the queue
ReceiveAssignment ==
    /\ pc = "idle"
    /\ \E c \in Contacts, d \in Days, f1 \in Fields, f2 \in Fields :
         submission' = [contact_id |-> c.contact_id, contact_email |-> c.contact_email,
                        day |-> d, field1 |-> f1, field2 |-> f2]
    /\ pc' = "queued"
    /\ UNCHANGED <<runs, routeVars, submit_calls, pollVars, escalationVars,
                   deliveryVars, result>>

\* the task declared with autoretry_for=(Exception,): the worker also starts
\* the task again after it raised
StartTaskWithAutoretry ==
    /\ \/ pc = "queued"
       \/ pc = "done" /\ result.kind = "raised"
    /\ runs' = runs + 1
    /\ pc' = "route"
    /\ result' = NoResult
    /\ run' = NoRun
    /\ attempts' = 0
    /\ wait_time' = InitialWait
    /\ UNCHANGED <<submission, routeVars, submit_calls, waits, polled, timed_out,
                   escalationVars, deliveryVars>>

\* the worker takes the task off the queue (acknowledged at once:
\* task_acks_late=False) and starts process_assignment
StartTask ==
    /\ pc = "queued"
    /\ runs' = runs + 1
    /\ pc' = "route"
    /\ UNCHANGED <<submission, routeVars, submit_calls, pollVars, escalationVars,
                   deliveryVars, result>>

\* process_assignment, the day chain
Route ==
    /\ pc = "route"
    /\ LET r == RouteDay(submission.day, submission.field1, submission.field2)
       IN IF r.ok
          THEN /\ user_input' = r.user_input
               /\ ghl_webhook_url' = r.url
               /\ pc' = "submit"
               /\ UNCHANGED result
          ELSE /\ result' = Raised("ValueError", "process_assignment")
               /\ pc' = "done"
               /\ UNCHANGED routeVars
    /\ UNCHANGED <<inputVars, submit_calls, pollVars, escalationVars, deliveryVars>>

\* Step 1: threads.create and runs.create answer with a run
SubmitOk ==
    /\ pc = "submit"
    /\ submit_calls' = submit_calls + 1
    /\ \E r \in ServiceRuns : run' = r
    /\ pc' = "poll"
    /\ UNCHANGED <<inputVars, routeVars, attempts, wait_time, waits, polled,
                   timed_out, escalationVars, deliveryVars, result>>

\* Step 1: threads.create or runs.create raises; the except clause raises
SubmitError ==
    /\ pc = "submit"
    /\ submit_calls' = submit_calls + 1
    /\ result' = Raised("Error creating OpenAI thread.", "process_assignment")
    /\ pc' = "done"
    /\ UNCHANGED <<inputVars, routeVars, pollVars, escalationVars, deliveryVars>>

\* poll_openai_run: the loop condition is false, return run
PollReturn ==
    /\ pc = "poll"
    /\ run.status \in TerminalStatuses
    /\ pc' = "classify"
    /\ UNCHANGED <<inputVars, routeVars, submit_calls, pollVars, escalationVars,
                   deliveryVars, result>>

\* poll_openai_run: the budget is exhausted, mark the run failed and break
PollTimeout ==
    /\ pc = "poll"
    /\ run.status \notin TerminalStatuses
    /\ BudgetExhausted(attempts)
    /\ run' = TimeoutRun
    /\ timed_out' = TRUE
    /\ pc' = "classify"
    /\ UNCHANGED <<inputVars, routeVars, submit_calls, attempts, wait_time, waits,
                   polled, escalationVars, deliveryVars, result>>

\* poll_openai_run: sleep, back off, count the attempt, retrieve the run
PollAttempt ==
    /\ pc = "poll"
    /\ run.status \notin TerminalStatuses
    /\ ~BudgetExhausted(attempts)
    /\ waits' = Append(waits, wait_time)
    /\ wait_time' = NextWait(wait_time)
    /\ attempts' = attempts + 1
    /\ \E r \in ServiceRuns :
         /\ run' = r
         /\ polled' = Append(polled, r.status)
    /\ UNCHANGED <<pc, inputVars, routeVars, submit_calls, timed_out, escalationVars,
                   deliveryVars, result>>

\* poll_openai_run: runs.retrieve raises; nothing catches it in the task
PollRetrieveError ==
    /\ pc = "poll"
    /\ run.status \notin TerminalStatuses
    /\ ~BudgetExhausted(attempts)
    /\ waits' = Append(waits, wait_time)
    /\ wait_time' = NextWait(wait_time)
    /\ attempts' = attempts + 1
    /\ result' = Raised("APIError", "poll_openai_run")
    /\ pc' = "done"
    /\ UNCHANGED <<inputVars, routeVars, submit_calls, run, polled, timed_out,
                   escalationVars, deliveryVars>>

\* Step 2: if run.status == "failed": extract the code and message
Classify ==
    /\ pc = "classify"
    /\ IF IsFailedRun(run)
       THEN /\ error_code' = ErrorCode(run.last_error)
            /\ error_message' = ErrorMessage(run.last_error)
            /\ pc' = "slack"
       ELSE /\ pc' = "fetch"
            /\ UNCHANGED <<error_code, error_message>>
    /\ UNCHANGED <<inputVars, routeVars, submit_calls, pollVars, slack_posts,
                   failsafe_posts, task_state, deliveryVars, result>>

\* send_slack_alert
SendSlackAlert ==
    /\ pc = "slack"
    /\ \E o \in PostOutcomes :
         /\ slack_posts' = Append(slack_posts, EscalationPayload(o))
         /\ IF SlackAlertResult(o) = "raise"
            THEN /\ result' = Raised("RequestException", "send_slack_alert")
                 /\ pc' = "done"
            ELSE /\ pc' = "failsafe"
                 /\ UNCHANGED result
    /\ UNCHANGED <<inputVars, routeVars, submit_calls, pollVars, error_code,
                   error_message, failsafe_posts, task_state, deliveryVars>>

\* send_failsafe_payload
SendFailsafePayload ==
    /\ pc = "failsafe"
    /\ \E o \in PostOutcomes :
         /\ failsafe_posts' = Append(failsafe_posts, EscalationPayload(o))
         /\ IF FailsafeResult(o) = "raise"
            THEN /\ result' = Raised("RequestException", "send_failsafe_payload")
                 /\ pc' = "done"
            ELSE /\ pc' = "check_code"
                 /\ UNCHANGED result
    /\ UNCHANGED <<inputVars, routeVars, submit_calls, pollVars, error_code,
                   error_message, slack_posts, task_state, deliveryVars>>

\* the check without its return: a quiet code goes on to Step 3
CheckErrorCodeNoReturn ==
    /\ pc = "check_code"
    /\ IF IsQuietCode(error_code)
       THEN /\ task_state' = "FAILURE"
            /\ pc' = "fetch"
            /\ UNCHANGED result
       ELSE /\ result' = Raised("OpenAI task failed.", "process_assignment")
            /\ pc' = "done"
            /\ UNCHANGED task_state
    /\ UNCHANGED <<inputVars, routeVars, submit_calls, pollVars, error_code,
                   error_message, slack_posts, failsafe_posts, deliveryVars>>

\* Check error_code: update_state(FAILURE) and return, or raise
CheckErrorCode ==
    /\ pc = "check_code"
    /\ IF IsQuietCode(error_code)
       THEN /\ task_state' = "FAILURE"
            /\ result' = Returned
       ELSE /\ result' = Raised("OpenAI task failed.", "process_assignment")
            /\ UNCHANGED task_state
    /\ pc' = "done"
    /\ UNCHANGED <<inputVars, routeVars, submit_calls, pollVars, error_code,
                   error_message, slack_posts, failsafe_posts, deliveryVars>>

\* Step 3: messages.list gives a message with a text; strip and format it
FetchText ==
    /\ pc = "fetch"
    /\ \E t \in Texts :
         /\ assistant_output' = t
         /\ feedback' = remove_bracketed_text(t)
         /\ formatted_feedback' = FormatFeedback(t)
    /\ fetched' = "text"
    /\ pc' = "deliver"
    /\ UNCHANGED <<inputVars, routeVars, submit_calls, pollVars, escalationVars,
                   ghl_posts, result>>

\* Step 3: messages.list raises, or a validity check raises; the except
\* clause raises
FetchError ==
    /\ pc = "fetch"
    /\ \E f \in FetchFailures : fetched' = f
    /\ result' = Raised("Error retrieving OpenAI response.", "process_assignment")
    /\ pc' = "done"
    /\ UNCHANGED <<inputVars, routeVars, submit_calls, pollVars, escalationVars,
                   assistant_output, feedback, formatted_feedback, ghl_posts>>

\* Step 4: send_ghl_feedback
SendGhlFeedback ==
    /\ pc = "deliver"
    /\ \E o \in PostOutcomes :
         /\ ghl_posts' = Append(ghl_posts,
                [contact_id |-> submission.contact_id,
                 contact_email |-> submission.contact_email,
                 feedback |-> formatted_feedback, url |-> ghl_webhook_url,
                 outcome |-> o])
         /\ IF GhlFeedbackResult(o) = "raise"
            THEN result' = Raised("Error sending feedback to GHL.", "process_assignment")
            ELSE result' = Returned
    /\ pc' = "done"
    /\ UNCHANGED <<inputVars, routeVars, submit_calls, pollVars, escalationVars,
                   fetched, assistant_output, feedback, formatted_feedback>>

Next ==
    \/ ReceiveAssignment
    \/ StartTask
    \/ Route
    \/ SubmitOk
    \/ SubmitError
    \/ PollReturn
    \/ PollTimeout
    \/ PollAttempt
    \/ PollRetrieveError
    \/ Classify
    \/ SendSlackAlert
    \/ SendFailsafePayload
    \/ CheckErrorCode
    \/ FetchText
    \/ FetchError
    \/ SendGhlFeedback

Spec == Init /\ [][Next]_vars

----------------------------------------------------------------------------
(* The result transformer on its own: lines 256-258 of process_assignment  *)
(* applied to every text up to MaxInputLen, and applied again to their own *)
(* output.                                                                 *)

TransformInputs == SeqsUpTo(Alphabet, MaxInputLen)

taskVars == <<inputVars, routeVars, submit_calls, pollVars, escalationVars,
              fetched, ghl_posts, result>>

TransformInit ==
    /\ pc = "transform"
    /\ submission = NoSubmission
    /\ runs = 0
    /\ user_input = <<>>
    /\ ghl_webhook_url = <<>>
    /\ submit_calls = 0
    /\ run = NoRun
    /\ attempts = 0
    /\ wait_time = InitialWait
    /\ waits = <<>>
    /\ polled = <<>>
    /\ timed_out = FALSE
    /\ error_code = None
    /\ error_message = None
    /\ slack_posts = <<>>
    /\ failsafe_posts = <<>>
    /\ fetched = "text"
    /\ assistant_output \in TransformInputs
    /\ feedback = <<>>
    /\ formatted_feedback = <<>>
    /\ ghl_posts = <<>>
    /\ task_state = "PENDING"
    /\ result = NoResult

\* feedback = remove_bracketed_text(assistant_output)
StripText ==
    /\ pc = "transform"
    /\ feedback' = remove_bracketed_text(assistant_output)
    /\ pc' = "stripped"
    /\ UNCHANGED <<taskVars, task_state, assistant_output, formatted_feedback>>

\* remove_bracketed_text applied to its own output
StripAgain ==
    /\ pc = "stripped"
    /\ feedback' = remove_bracketed_text(feedback)
    /\ pc' = "restripped"
    /\ UNCHANGED <<taskVars, task_state, assistant_output, formatted_feedback>>

\* formatted_feedback = feedback.replace("\n", "<br>")
FormatText ==
    /\ pc = "stripped"
    /\ formatted_feedback' = ReplaceNewlines(feedback)
    /\ pc' = "formatted"
    /\ UNCHANGED <<taskVars, task_state, assistant_output, feedback>>

\* both steps applied to the formatted text
TransformAgain ==
    /\ pc = "formatted"
    /\ feedback' = remove_bracketed_text(formatted_feedback)
    /\ formatted_feedback' = FormatFeedback(formatted_feedback)
    /\ pc' = "reformatted"
    /\ UNCHANGED <<taskVars, task_state, assistant_output>>

TransformNext ==
    \/ StripText
    \/ StripAgain
    \/ FormatText
    \/ TransformAgain

TransformSpec == TransformInit /\ [][TransformNext]_vars

----------------------------------------------------------------------------
(* Vocabulary of the properties *)

Done == pc = "done"
ValidDay == submission.day \in 1..5
\* send_ghl_feedback was called (every call makes one POST)
DeliveryInvoked == ghl_posts # <<>>
\* send_slack_alert and send_failsafe_payload were both called
EscalationInvoked == slack_posts # <<>> /\ failsafe_posts # <<>>
\* either escalation helper was called
AnyEscalation == slack_posts # <<>> \/ failsafe_posts # <<>>
MalformedFetches == {"no_data", "no_content", "no_text"}

----------------------------------------------------------------------------
(* C1: every job with a valid day ends with exactly one of: the delivery   *)
(* dispatcher send_ghl_feedback invoked, or failure escalation             *)
(* (send_slack_alert and send_failsafe_payload) invoked; never neither,    *)
(* never both.                                                             *)
C1_ExactlyOneOfDeliveryOrEscalation ==
    (Done /\ ValidDay) =>
        \/ DeliveryInvoked /\ ~AnyEscalation
        \/ ~DeliveryInvoked /\ EscalationInvoked

(* C2: when polling ends with the run failed or cancelled, or with the     *)
(* synthetic timeout, the job is escalated (alert and failsafe record      *)
(* sent) and the delivery dispatcher is never invoked; cancelled is        *)
(* treated exactly as failed.                                              *)
C2_TerminalRunFailureEscalated ==
    (Done /\ (run.status \in {"failed", "cancelled"} \/ timed_out)) =>
        EscalationInvoked /\ ~DeliveryInvoked

(* C3: for a day outside 1..5 the task raises before any external call:    *)
(* no submit, no poll, no delivery POST, no alert, no failsafe record, and *)
(* the task is started once only.                                          *)
C3_InvalidDayFailsBeforeAnyCall ==
    (pc # "idle" /\ ~ValidDay) =>
        /\ submit_calls = 0
        /\ polled = <<>> /\ waits = <<>>
        /\ fetched = None
        /\ ghl_posts = <<>>
        /\ slack_posts = <<>> /\ failsafe_posts = <<>>
        /\ runs <= 1
        /\ pc \in {"queued", "route", "done"}
        /\ Done => result = Raised("ValueError", "process_assignment")

C3_Witness ==
    Done /\ submission.day > 5 /\ runs = 1 /\ result.exc = "ValueError"

(* C4 (scenario B): when the service reports the run failed with error     *)
(* code server_error, the alert and the failsafe payload are both POSTed   *)
(* carrying exactly that code, the job is submitted once and started once  *)
(* (no task-level retry), and delivery is never invoked.                   *)
C4_ServerErrorEscalatedWithCode ==
    (run.status = "failed" /\ run.last_error.code = "server_error") =>
        /\ ~DeliveryInvoked /\ fetched = None
        /\ submit_calls = 1 /\ runs = 1
        /\ Done =>
             /\ Len(slack_posts) = 1
             /\ slack_posts[1].error_code = "server_error"
             /\ Len(failsafe_posts) = 1
             /\ failsafe_posts[1].error_code = "server_error"

C4_Witness ==
    /\ Done /\ run.status = "failed" /\ run.last_error.code = "server_error"
    /\ result = Returned /\ task_state = "FAILURE"
    /\ slack_posts[1].outcome = "200" /\ failsafe_posts[1].outcome = "200"

(* C5 (scenario C): if the run is still not terminal after max_attempts    *)
(* retrievals, poll_openai_run retrieves no more (never more than          *)
(* max_attempts retrievals), synthesizes a failed run with code timeout,   *)
(* and the job escalates as for an explicit failure: alert and failsafe    *)
(* are POSTed with code timeout and nothing is delivered.                  *)
C5_TimeoutAfterMaxAttempts ==
    /\ Len(polled) <= max_attempts
    /\ (/\ pc # "poll"
        /\ Len(polled) = max_attempts
        /\ \A i \in 1..Len(polled) : polled[i] \notin TerminalStatuses)
       => (timed_out /\ run = TimeoutRun)
    /\ timed_out =>
         /\ Len(polled) = max_attempts
         /\ run.status = "failed" /\ run.last_error.code = "timeout"
         /\ ~DeliveryInvoked /\ fetched = None
         /\ Done =>
              /\ Len(slack_posts) = 1 /\ slack_posts[1].error_code = "timeout"
              /\ Len(failsafe_posts) = 1 /\ failsafe_posts[1].error_code = "timeout"

C5_Witness ==
    /\ Done /\ timed_out
    /\ Len(polled) = max_attempts
    /\ \A i \in 1..Len(polled) : polled[i] = "in_progress"
    /\ result = Returned /\ task_state = "FAILURE"

(* C6: in every state of the poll loop the attempt counter is at most      *)
(* max_attempts, the first wait is 30 s, each later wait is                *)
(* min(previous * 1.5, 120 s), the waits never decrease and none exceeds   *)
(* 120 s.                                                                  *)
C6_PollLoopBounds ==
    /\ attempts <= max_attempts
    /\ Len(waits) = attempts
    /\ wait_time <= Seconds(120)
    /\ \A i \in 1..Len(waits) :
         /\ waits[i] <= Seconds(120)
         /\ i = 1 => waits[i] = Seconds(30)
         /\ i > 1 => /\ waits[i - 1] <= waits[i]
                     /\ 2 * waits[i] = Min(3 * waits[i - 1], 2 * Seconds(120))

C6_Witness ==
    /\ Len(waits) = max_attempts
    /\ waits[max_attempts] = Seconds(120)
    /\ waits[max_attempts - 1] < Seconds(120)

C8_EscalationNeverRaises ==
    result.origin \notin {"send_slack_alert", "send_failsafe_payload"}

(* C9: whenever process_assignment escalates a failed run, the alert POST  *)
(* and the failsafe POST are each attempted exactly once by the end of the *)
(* task, whichever of them fails; neither is ever attempted twice.         *)
C9_BothChannelsAttemptedOnce ==
    /\ Len(slack_posts) <= 1
    /\ Len(failsafe_posts) <= 1
    /\ (Done /\ IsFailedRun(run)) =>
         Len(slack_posts) = 1 /\ Len(failsafe_posts) = 1
    /\ pc = "check_code" => Len(slack_posts) = 1 /\ Len(failsafe_posts) = 1

C9_Witness ==
    /\ Done
    /\ Len(slack_posts) = 1 /\ slack_posts[1].outcome = "exception"
    /\ Len(failsafe_posts) = 1 /\ failsafe_posts[1].outcome = "exception"

(* C10: when the run completes but no message is found, or the latest      *)
(* message has empty or absent content, the job is escalated (alert and    *)
(* failsafe record sent) and not delivered.                                *)
C10_MalformedResponseEscalated ==
    (Done /\ fetched \in MalformedFetches) =>
        EscalationInvoked /\ ~DeliveryInvoked

(* C11: for every externally caused failure of a job with a valid day      *)
(* (submit error, failed, cancelled or timed-out run, malformed response,  *)
(* delivery error) process_assignment returns; no exception propagates out *)
(* of the task body.                                                       *)
C11_NoExceptionLeavesTheTask ==
    (Done /\ ValidDay) => result.kind = "returned"

----------------------------------------------------------------------------
(* Vocabulary of the transformer's properties *)

\* an open bracket at i and a close bracket at j on the same line
IsSpan(t, i, j) ==
    /\ i < j
    /\ t[i] = LB /\ t[j] = RB
    /\ \A k \in (i + 1)..(j - 1) : t[k] # NL

\* the text still holds a match of the citation-marker pattern
HasMatch(t) == \E i, j \in 1..Len(t) : IsSpan(t, i, j)

\* the text holds an open bracket followed, anywhere later, by a close bracket
HasBracketPair(t) == \E i, j \in 1..Len(t) : i < j /\ t[i] = LB /\ t[j] = RB

\* the characters of t at the positions of K, in order
RECURSIVE KeepFrom(_, _, _)
KeepFrom(t, K, i) ==
    IF i > Len(t) THEN <<>>
    ELSE (IF i \in K THEN <<t[i]>> ELSE <<>>) \o KeepFrom(t, K, i + 1)

\* y is x without some characters, each of which lies inside a match
OnlyMatchesRemoved(x, y) ==
    \E K \in SUBSET (1..Len(x)) :
        /\ KeepFrom(x, K, 1) = y
        /\ \A p \in (1..Len(x)) \ K :
             \E i \in 1..p, j \in p..Len(x) : IsSpan(x, i, j)

(* C12, as claimed: the result transformer (remove_bracketed_text, then    *)
(* newline to <br>) is idempotent: applying it to its own output changes   *)
(* nothing, for every input text.                                          *)
C12_TransformIdempotent ==
    [][(pc = "formatted" /\ pc' = "reformatted")
         => formatted_feedback' = formatted_feedback]_vars

(* C12, amended: applying the transformer to its own output changes        *)
(* nothing exactly when the text left by remove_bracketed_text holds no    *)
(* open bracket followed later by a close bracket; a pair that a newline   *)
(* kept apart becomes a match once the newline is <br>, and the second     *)
(* application removes it.                                                 *)
C12_TransformIdempotentUnlessPairAcrossNewline ==
    [][(pc = "formatted" /\ pc' = "reformatted")
         => ((formatted_feedback' = formatted_feedback) <=> ~HasBracketPair(feedback))]_vars

C12_Witness ==
    /\ pc = "reformatted"
    /\ HasMatch(assistant_output)
    /\ \E i \in 1..Len(assistant_output) : assistant_output[i] = NL
    /\ formatted_feedback = FormatFeedback(assistant_output)
    /\ formatted_feedback # assistant_output

(* C13: remove_bracketed_text applied to its own output changes nothing;   *)
(* its output holds no match of the pattern (open bracket, shortest run of *)
(* non-newline characters, close bracket); and it is the input without     *)
(* some characters, all of them inside matches, the others in their order. *)
C13_StripIdempotentAndComplete ==
    /\ [][(pc = "stripped" /\ pc' = "restripped") => feedback' = feedback]_vars
    /\ [](pc = "stripped" =>
            /\ ~HasMatch(feedback)
            /\ OnlyMatchesRemoved(assistant_output, feedback))

C13_Witness ==
    /\ pc = "restripped"
    /\ HasMatch(assistant_output)
    /\ feedback # <<>>
    /\ Len(feedback) < Len(assistant_output)

----------------------------------------------------------------------------
(* C14: every job waits a start delay of at least one minute before its    *)
(* first submission: whenever the completion service has been called, a    *)
(* time.sleep of at least 60 s came first.                                 *)
C14_StartDelayBeforeSubmit ==
    submit_calls > 0 => (waits # <<>> /\ waits[1] >= Seconds(60))

(* C15: the task never retries: process_assignment is started at most once *)
(* for the submission, the completion service receives at most one submit  *)
(* and the destination at most one delivery POST, whatever fails; a task   *)
(* that has ended stays ended.                                             *)
C15_TaskRunsAtMostOnce ==
    /\ runs <= 1
    /\ submit_calls <= 1
    /\ Len(ghl_posts) <= 1
    /\ pc \notin {"idle", "queued"} => runs = 1

C15_Witness ==
    /\ Done /\ runs = 1 /\ submit_calls = 1
    /\ result = Raised("Error creating OpenAI thread.", "process_assignment")

(* C16: for every day k in 1..5 the day chain selects the webhook          *)
(* configured for day k and a prompt for day k holding field1 and field2   *)
(* as given; a delivery of a day-k job is posted only to webhook k, with   *)
(* the job's own contact_id and contact_email.                             *)
C16_DayRoutesToItsOwnDestination ==
    (ValidDay /\ pc \notin {"idle", "queued", "route"}) =>
        /\ ghl_webhook_url = <<"GHL_WEBHOOK_URL_DAY", submission.day>>
        /\ \A d \in (1..5) \ {submission.day} :
             ghl_webhook_url # <<"GHL_WEBHOOK_URL_DAY", d>>
        /\ user_input = <<"Dag", submission.day, submission.field1, submission.field2>>
        /\ \A i \in 1..Len(ghl_posts) :
             /\ ghl_posts[i].url = <<"GHL_WEBHOOK_URL_DAY", submission.day>>
             /\ ghl_posts[i].contact_id = submission.contact_id
             /\ ghl_posts[i].contact_email = submission.contact_email

C16_Witness ==
    /\ Done /\ submission.day = 4
    /\ submission.field1 # submission.field2
    /\ Len(ghl_posts) = 1 /\ ghl_posts[1].outcome = "200"
    /\ ghl_posts[1].url = <<"GHL_WEBHOOK_URL_DAY", 4>>

(* C17: send_ghl_feedback is invoked only for a job whose polled run ended *)
(* completed: never when poll_openai_run returned a failed, cancelled or   *)
(* non-terminal run.                                                       *)
C17_DeliveryOnlyAfterCompletedRun ==
    DeliveryInvoked => run.status = "completed"

(* C18: no run of process_assignment invokes both delivery and escalation: *)
(* once send_slack_alert or send_failsafe_payload has been called,         *)
(* send_ghl_feedback is not called, and once send_ghl_feedback has been    *)
(* called, neither escalation helper is.                                   *)
C18_NeverBothDeliveryAndEscalation ==
    /\ ~(DeliveryInvoked /\ AnyEscalation)
    /\ AnyEscalation => (fetched = None /\ pc \in {"failsafe", "check_code", "done"})
    /\ DeliveryInvoked => Done

C18_Witness ==
    Done /\ EscalationInvoked /\ result = Returned /\ task_state = "FAILURE"

(* C19: after the escalation of a failed run, error code server_error or   *)
(* timeout makes the task record state FAILURE and return; any other code, *)
(* N/A for a missing last_error included, makes it raise; either way the   *)
(* alert POST and the failsafe POST were both made first.  When the        *)
(* failsafe POST itself raises, that exception ends the task instead.      *)
C19_OutcomeFollowsErrorCode ==
    (Done /\ run.status = "failed") =>
        LET code == IF run.last_error.shape = "none" THEN "N/A"
                    ELSE run.last_error.code
        IN /\ Len(slack_posts) = 1 /\ Len(failsafe_posts) = 1
           /\ slack_posts[1].error_code = code
           /\ failsafe_posts[1].error_code = code
           /\ IF failsafe_posts[1].outcome = "exception"
              THEN /\ result = Raised("RequestException", "send_failsafe_payload")
                   /\ task_state = "PENDING"
              ELSE IF code \in {"server_error", "timeout"}
              THEN result = Returned /\ task_state = "FAILURE"
              ELSE /\ result = Raised("OpenAI task failed.", "process_assignment")
                   /\ task_state = "PENDING"

C19_Witness ==
    /\ Done /\ run.status = "failed" /\ run.last_error.shape = "none"
    /\ slack_posts[1].error_code = "N/A"
    /\ result = Raised("OpenAI task failed.", "process_assignment")

(* C20: poll_openai_run always ends: every turn of its loop is a step that *)
(* can be taken and counts towards max_attempts, it makes at most          *)
(* max_attempts retrievals, the run it returns is completed, failed or     *)
(* cancelled, and for a run already terminal on entry it neither waits nor *)
(* retrieves.                                                              *)
C20_PollEndsWithTerminalRun ==
    /\ Len(polled) <= max_attempts
    /\ Len(waits) <= max_attempts
    /\ pc = "poll" =>
         /\ attempts = Len(waits)
         /\ ENABLED (PollReturn \/ PollTimeout \/ PollAttempt)
    /\ pc = "classify" => run.status \in {"completed", "failed", "cancelled"}
    /\ (pc = "poll" /\ attempts = 0
          /\ run.status \in {"completed", "failed", "cancelled"}) =>
         /\ ~ENABLED PollAttempt
         /\ ~ENABLED PollRetrieveError
         /\ ~ENABLED PollTimeout
    /\ (pc = "classify" /\ polled = <<>>) => waits = <<>>

C20_Witness ==
    /\ pc = "classify" /\ timed_out
    /\ Len(polled) = max_attempts
    /\ polled[1] = "queued" /\ polled[max_attempts] = "in_progress"
====
